---------------------------- MODULE Spec2Model ----------------------------
(***************************************************************************)
(* Model of apps/synthetic/src/memcached.rs: the memcached binary-protocol *)
(* header codec, the key encoder, the USR and ETC request builders with    *)
(* the shared key-size table ETC_KEY_PRELOAD, and the response reader.     *)
(*                                                                         *)
(* Integers wider than 16 bits are kept as tuples of 16-bit limbs, most    *)
(* significant limb first (u32 = <<hi, lo>>, u64 = four limbs), so that    *)
(* every bit pattern of a u32 or u64 field can be written and read back    *)
(* although TLC's own integers are 32-bit.  Sizes and counts (usize) that  *)
(* the code computes with are plain naturals; every one the model reaches  *)
(* is far below 2^31.                                                      *)
(***************************************************************************)
EXTENDS Integers, Sequences, FiniteSets, TLC

VARIABLES
    buf,              \* the Vec<u8> a request builder or write_key appends to
    call,             \* the last builder / codec call and what it was given
    ETC_KEY_PRELOAD,  \* static mut ETC_KEY_PRELOAD, restricted to the slots in use
    lastSet,          \* history: per key, the key size its latest Set recorded
    sock,             \* the Connection: transport, pending bytes or datagrams
    scratch,          \* the caller's scratch buffer of read_response
    ret,              \* what the last read_response call did and returned
    workers           \* the workers of the concurrent ETC writers

vars == <<buf, call, ETC_KEY_PRELOAD, lastSet, sock, scratch, ret, workers>>

----------------------------------------------------------------------------
(* Bounds of the model. *)

\* largest target size handed to write_key when it is checked on its own
MaxKeySize == 21
\* the request index i the driver passes (the opaque of a generated request)
RequestIndex == 7
\* largest sample of the generalized-Pareto tail of the value size
MaxTail == 17
\* length of the scratch slice the driver hands to read_response
ScratchLen == 40
\* number of responses queued on a connection
MaxResponses == 2

----------------------------------------------------------------------------
(* Program constants. *)

Opcode_Get == 0
Opcode_Set == 1
Magic_Request == 128
Magic_Response == 129
ResponseStatus_NoError == 0
NVALUES == 100000
PCT_SET == 2
VALUE_SIZE == 2
KEY_SIZE == 20
ETC_PCT_SET == 30
ETC_KEY_MAX == 256
UDP_HEADER == <<0, 0, 0, 0, 0, 1, 0, 0>>
\* ETC_VALUE_DISTR1, the probabilities in units of 1/100000
ETC_VALUE_DISTR1 ==
    << <<536, 0>>, <<47, 1>>, <<17820, 2>>, <<9239, 3>>, <<18, 4>>,
       <<2740, 5>>, <<65, 6>>, <<606, 7>>, <<23, 8>>, <<837, 9>>,
       <<837, 10>>, <<8989, 11>>, <<92, 12>>, <<326, 13>>, <<1980, 14>> >>

Tcp == "Tcp"
Udp == "Udp"
Transport == {Tcp, Udp}

----------------------------------------------------------------------------
(* byteorder: big-endian writers and readers. *)

Min(a, b) == IF a < b THEN a ELSE b
Max(a, b) == IF a > b THEN a ELSE b
Repeat(x, n) == [i \in 1..n |-> x]

write_u8(v) == <<v>>
write_u16(v) == <<v \div 256, v % 256>>
write_u32(v) == write_u16(v[1]) \o write_u16(v[2])
write_u64(v) == write_u16(v[1]) \o write_u16(v[2]) \o write_u16(v[3]) \o write_u16(v[4])

read_u8(b, off) == b[off + 1]
\* mutant of read_u16: little-endian
read_u16_le(b, off) == b[off + 2] * 256 + b[off + 1]
read_u16(b, off) == b[off + 1] * 256 + b[off + 2]
read_u32(b, off) == <<read_u16(b, off), read_u16(b, off + 2)>>
read_u64(b, off) ==
    <<read_u16(b, off), read_u16(b, off + 2), read_u16(b, off + 4), read_u16(b, off + 6)>>

\* casts
AsU16(n) == n % 65536
AsU32(n) == <<(n \div 65536) % 65536, n % 65536>>
AsUsize(v) == v[1] * 65536 + v[2]

----------------------------------------------------------------------------
(* PacketHeader *)

PacketHeader_default ==
    [magic |-> 0, opcode |-> 0, key_length |-> 0, extras_length |-> 0,
     data_type |-> 0, vbucket_id_or_status |-> 0,
     total_body_length |-> <<0, 0>>, opaque |-> <<0, 0>>, cas |-> <<0, 0, 0, 0>>]

\* PacketHeader::write: the 24 bytes appended to the writer
PacketHeader_write(self) ==
    write_u8(self.magic) \o write_u8(self.opcode) \o write_u16(self.key_length)
    \o write_u8(self.extras_length) \o write_u8(self.data_type)
    \o write_u16(self.vbucket_id_or_status) \o write_u32(self.total_body_length)
    \o write_u32(self.opaque) \o write_u64(self.cas)

\* PacketHeader::read on a reader holding at least 24 bytes
PacketHeader_read(reader) ==
    LET magic == read_u8(reader, 0) IN
    IF magic # Magic_Response
    THEN [ok |-> FALSE, magic |-> magic]
    ELSE [ok |-> TRUE,
          hdr |-> [magic |-> magic,
                   opcode |-> read_u8(reader, 1),
                   key_length |-> read_u16(reader, 2),
                   extras_length |-> read_u8(reader, 4),
                   data_type |-> read_u8(reader, 5),
                   vbucket_id_or_status |-> read_u16(reader, 6),
                   total_body_length |-> read_u32(reader, 8),
                   opaque |-> read_u32(reader, 12),
                   cas |-> read_u64(reader, 16)]]

----------------------------------------------------------------------------
(* write_key *)

\* the do-while loop: one digit pushed, then k /= 10, until k == 0
RECURSIVE KeyDigits(_)
KeyDigits(k) ==
    IF k \div 10 = 0 THEN <<48 + (k % 10)>>
    ELSE <<48 + (k % 10)>> \o KeyDigits(k \div 10)

\* mutant of write_key: pads with key_size bytes whatever was pushed
write_key_pad_all(b, key, key_size) ==
    b \o KeyDigits(key) \o Repeat(65, key_size)
write_key(b, key, key_size) ==
    LET digits == KeyDigits(key)
        pushed == Len(digits)
    IN  b \o digits \o Repeat(65, Max(key_size - pushed, 0))

----------------------------------------------------------------------------
(* Unused-variable values. *)

NoCall == [fn |-> "none"]
NoRet == [kind |-> "none"]
NoSock == [tport |-> Tcp, closed |-> FALSE, data |-> <<>>]


----------------------------------------------------------------------------
(* The key encoder on its own: write_key applied to any buffer, key, size. *)

PriorBufs == {<<>>, <<7, 129>>}
KeyInputs == {0, 5, 9, 10, 99, 12345, 99999, 100000}

Unused ==
    /\ ETC_KEY_PRELOAD = <<>>
    /\ lastSet = <<>>
    /\ sock = NoSock
    /\ scratch = <<>>
    /\ ret = NoRet
    /\ workers = <<>>

\* the caller's buffer and arguments, before the call
InitKey ==
    /\ \E prior \in PriorBufs, key \in KeyInputs, key_size \in 0..MaxKeySize :
          /\ buf = prior
          /\ call = [fn |-> "input", prior |-> prior, key |-> key, key_size |-> key_size]
    /\ Unused

WriteKey ==
    /\ call.fn = "input"
    /\ buf' = write_key(buf, call.key, call.key_size)
    /\ call' = [call EXCEPT !.fn = "write_key"]
    /\ UNCHANGED <<ETC_KEY_PRELOAD, lastSet, sock, scratch, ret, workers>>

NextKey == WriteKey

SpecKey == InitKey /\ [][NextKey]_vars

----------------------------------------------------------------------------
(* The header codec on its own: a header written with the request magic,   *)
(* its first byte overwritten with the response magic, and read back.      *)

U8Inputs == {0, 1, 8, 28, 255}
U16Inputs == {0, 20, 256, 258, 65535}
U32Inputs == {<<0, 0>>, <<0, 30>>, <<258, 772>>, <<65535, 65535>>}
U64Inputs == {<<0, 0, 0, 0>>, <<258, 772, 1286, 1800>>, <<65535, 65535, 65535, 65535>>}

HeaderInputs ==
    [magic : {Magic_Request}, opcode : U8Inputs, key_length : U16Inputs,
     extras_length : {0, 8, 255}, data_type : {0, 255},
     vbucket_id_or_status : U16Inputs, total_body_length : U32Inputs,
     opaque : U32Inputs, cas : U64Inputs]

InitHdr ==
    /\ \E h \in HeaderInputs :
          /\ buf = <<>>
          /\ call = [fn |-> "input", hdr |-> h]
    /\ Unused

\* PacketHeader { .. }.write(buf)
WriteHeader ==
    /\ call.fn = "input"
    /\ buf' = buf \o PacketHeader_write(call.hdr)
    /\ call' = [call EXCEPT !.fn = "written"]
    /\ UNCHANGED <<ETC_KEY_PRELOAD, lastSet, sock, scratch, ret, workers>>

\* the peer's answer carries the response magic in the first byte
OverwriteMagic ==
    /\ call.fn = "written"
    /\ buf' = [buf EXCEPT ![1] = Magic_Response]
    /\ call' = [call EXCEPT !.fn = "overwritten"]
    /\ UNCHANGED <<ETC_KEY_PRELOAD, lastSet, sock, scratch, ret, workers>>

\* PacketHeader::read(&mut &buf[..])
ReadHeader ==
    /\ call.fn = "overwritten"
    /\ ret' = PacketHeader_read(buf)
    /\ call' = [call EXCEPT !.fn = "roundtrip"]
    /\ UNCHANGED <<buf, ETC_KEY_PRELOAD, lastSet, sock, scratch, workers>>

NextHdr == WriteHeader \/ OverwriteMagic \/ ReadHeader

SpecHdr == InitHdr /\ [][NextHdr]_vars

----------------------------------------------------------------------------
(* Claims about the key encoder and the header codec. *)

Pow10(n) == CASE n = 0 -> 1 [] n = 1 -> 10 [] n = 2 -> 100 [] n = 3 -> 1000
              [] n = 4 -> 10000 [] n = 5 -> 100000 [] n = 6 -> 1000000
              [] n = 7 -> 10000000
\* number of decimal digits of k (k below 10^7)
DigitCount(k) == CHOOSE n \in 1..7 : k < Pow10(n) /\ (n = 1 \/ k >= Pow10(n - 1))

\* C7: write_key leaves the bytes already in the buffer unchanged and appends
\* the decimal digits of the key, least significant first, then only 'A'
\* bytes; when key_size is at least the digit count it appends exactly
\* key_size bytes; for key 5 and size 20 that is '5' and 19 'A'.
C7_WriteKeyEncoding ==
    call.fn = "write_key" =>
        LET n == Len(call.prior)
            d == DigitCount(call.key)
            appended == SubSeq(buf, n + 1, Len(buf))
        IN  /\ Len(buf) >= n + d
            /\ SubSeq(buf, 1, n) = call.prior
            /\ \A i \in 1..d : appended[i] = 48 + ((call.key \div Pow10(i - 1)) % 10)
            /\ \A i \in (d + 1)..Len(appended) : appended[i] = 65
            /\ (call.key_size >= d => Len(appended) = call.key_size)
            /\ (call.key = 5 /\ call.key_size = 20
                    => appended = <<53>> \o [i \in 1..19 |-> 65])

C7_Witness ==
    /\ call.fn = "write_key"
    /\ call.key = 5
    /\ call.key_size = 20
    /\ call.prior # <<>>
    /\ Len(buf) = Len(call.prior) + 20

\* C8: every field but the magic of a header written with the request magic
\* is read back unchanged once the first byte is the response magic.
C8_HeaderRoundTrip ==
    call.fn = "roundtrip" =>
        /\ Len(buf) = 24
        /\ ret.ok
        /\ ret.hdr = [call.hdr EXCEPT !.magic = Magic_Response]

C8_Witness ==
    /\ call.fn = "roundtrip"
    /\ call.hdr.cas = <<258, 772, 1286, 1800>>
    /\ call.hdr.total_body_length = <<65535, 65535>>
    /\ call.hdr.key_length = 258
    /\ ret.ok
    /\ ret.hdr.opaque = call.hdr.opaque

----------------------------------------------------------------------------
(* The request builders. *)

\* key % NVALUES, the index into ETC_KEY_PRELOAD
\* mutant of Slot: divides where the code takes the remainder
SlotDiv(key) == key \div NVALUES
Slot(key) == key % NVALUES

\* mutant of SetBodyLength: the extras are left out of the body length
SetBodyLengthNoExtras(key_size, value_size) == key_size + value_size
\* 8 + key_size + value_size, the total_body_length of a Set
SetBodyLength(key_size, value_size) == 8 + key_size + value_size

Pow2(n) == CASE n = 0 -> 1 [] n = 1 -> 2 [] n = 2 -> 4 [] n = 3 -> 8
\* the synthetic payload: byte i is ((key * i) >> (i % 4)) & 0xff
ValueBytes(key, value_size) ==
    [j \in 1..value_size |-> ((key * (j - 1)) \div Pow2((j - 1) % 4)) % 256]

\* etc_value_size: rand is the uniform draw in units of 1/100000, tail the
\* sample ETC_VALUE_DISTR2 gives when the draw falls past the table
RECURSIVE ValueTableWalk(_, _, _, _)
ValueTableWalk(idx, sum, rand, tail) ==
    IF idx > Len(ETC_VALUE_DISTR1) THEN tail
    ELSE LET s == sum + ETC_VALUE_DISTR1[idx][1] IN
         IF rand < s THEN ETC_VALUE_DISTR1[idx][2]
         ELSE ValueTableWalk(idx + 1, s, rand, tail)
etc_value_size(rand, tail) == ValueTableWalk(1, 0, rand, tail)

\* usize::max(usize::min(sample, 256), KEY_SIZE)
ClampKeySize(sample) == Max(Min(sample, ETC_KEY_MAX), KEY_SIZE)

\* p.randomness as <<high 32 bits, low 32 bits>>
PacketKey(p) == p[1] % NVALUES
PacketLow32(p) == p[2]

FramePrefix(tport) == IF tport = Udp THEN UDP_HEADER ELSE <<>>

SetHeader(key_size, value_size, opaque) ==
    [PacketHeader_default EXCEPT
        !.magic = Magic_Request,
        !.opcode = Opcode_Set,
        !.key_length = AsU16(key_size),
        !.extras_length = 8,
        !.total_body_length = AsU32(SetBodyLength(key_size, value_size)),
        !.opaque = opaque]

GetHeader(key_size, opaque) ==
    [PacketHeader_default EXCEPT
        !.magic = Magic_Request,
        !.opcode = Opcode_Get,
        !.key_length = AsU16(key_size),
        !.total_body_length = AsU32(AsU16(key_size)),
        !.opaque = opaque]

\* the bytes of a Set once its sizes are known: prefix, header, extras, key,
\* value; keyStart and keyEnd are the buffer lengths around write_key
SetFrame(key, opaque, prior, tport, key_size, value_size) ==
    LET b1 == prior \o FramePrefix(tport)
        b2 == b1 \o PacketHeader_write(SetHeader(key_size, value_size, opaque))
        b3 == b2 \o write_u64(<<0, 0, 0, 0>>)
        b4 == write_key(b3, key, key_size)
        b5 == b4 \o ValueBytes(key, value_size)
    IN  [bytes |-> b5, keyStart |-> Len(b3), keyEnd |-> Len(b4)]

\* the bytes of a Get: prefix, header, key
GetFrame(key, opaque, prior, tport, key_size) ==
    LET b1 == prior \o FramePrefix(tport)
        b2 == b1 \o PacketHeader_write(GetHeader(key_size, opaque))
        b3 == write_key(b2, key, key_size)
    IN  [bytes |-> b3, keyStart |-> Len(b2), keyEnd |-> Len(b3)]

EmitSet(fn, key, opaque, prior, tport, key_size, value_size, sampled) ==
    LET f == SetFrame(key, opaque, prior, tport, key_size, value_size) IN
    /\ buf' = f.bytes
    /\ call' = [fn |-> fn, op |-> "Set", key |-> key, tport |-> tport,
                opaque |-> opaque, prior |-> Len(prior),
                target_size |-> key_size, keyStart |-> f.keyStart,
                keyEnd |-> f.keyEnd, sampled |-> sampled]

EmitGet(fn, key, opaque, prior, tport, key_size) ==
    LET f == GetFrame(key, opaque, prior, tport, key_size) IN
    /\ buf' = f.bytes
    /\ call' = [fn |-> fn, op |-> "Get", key |-> key, tport |-> tport,
                opaque |-> opaque, prior |-> Len(prior),
                target_size |-> key_size, keyStart |-> f.keyStart,
                keyEnd |-> f.keyEnd, sampled |-> 0]

usr_set_request(key, opaque, prior, tport) ==
    /\ EmitSet("usr_set_request", key, opaque, prior, tport, KEY_SIZE, VALUE_SIZE, 0)
    /\ UNCHANGED <<ETC_KEY_PRELOAD, lastSet>>

gen_usr_request(i, p, prior, tport) ==
    LET low32 == PacketLow32(p)
        key == PacketKey(p)
    IN  IF low32 % 1000 < PCT_SET
        THEN usr_set_request(key, AsU32(i), prior, tport)
        ELSE /\ EmitGet("gen_usr_request", key, AsU32(i), prior, tport, KEY_SIZE)
             /\ UNCHANGED <<ETC_KEY_PRELOAD, lastSet>>

\* value_size and sample are what the two distributions gave this call
etc_set_request(key, opaque, prior, tport, value_size, sample) ==
    LET stored == [ETC_KEY_PRELOAD EXCEPT ![Slot(key)] = ClampKeySize(sample)]
        key_size == stored[Slot(key)]
    IN  /\ ETC_KEY_PRELOAD' = stored
        /\ lastSet' = [lastSet EXCEPT ![key] = ClampKeySize(sample)]
        /\ EmitSet("etc_set_request", key, opaque, prior, tport, key_size,
                   value_size, ClampKeySize(sample))

gen_etc_request(i, p, prior, tport, value_size, sample) ==
    LET low32 == PacketLow32(p)
        key == PacketKey(p)
    IN  IF low32 % 1000 < ETC_PCT_SET
        THEN etc_set_request(key, AsU32(i), prior, tport, value_size, sample)
        ELSE LET key_size == AsU16(ETC_KEY_PRELOAD[Slot(key)]) IN
             /\ EmitGet("gen_etc_request", key, AsU32(i), prior, tport, key_size)
             /\ UNCHANGED <<ETC_KEY_PRELOAD, lastSet>>

----------------------------------------------------------------------------
(* The builders driven by one worker. *)

\* the bytes already in the driver's buffer when a builder is called
GenPrior == <<7, 129>>
HighInputs == {99999, 100005}
LowInputs == {2, 29, 30, 1001}
PacketInputs == HighInputs \X LowInputs
DirectKeys == {5, 100005}
RandInputs == {535, 536, 44155}
TailInputs == {15, MaxTail}
ValueSizeInputs == {etc_value_size(r, t) : r \in RandInputs, t \in TailInputs}
KeySampleInputs == {0, 21, 300}

AllKeys == DirectKeys \cup {PacketKey(p) : p \in PacketInputs}
AllSlots == {Slot(k) : k \in AllKeys}

InitGen ==
    /\ buf = <<>>
    /\ call = NoCall
    /\ ETC_KEY_PRELOAD = [s \in AllSlots |-> 0]
    /\ lastSet = [k \in AllKeys |-> 0]
    /\ sock = NoSock
    /\ scratch = <<>>
    /\ ret = NoRet
    /\ workers = <<>>

UsrSetRequest ==
    /\ \E key \in DirectKeys, tport \in Transport :
          usr_set_request(key, AsU32(RequestIndex), GenPrior, tport)
    /\ UNCHANGED <<sock, scratch, ret, workers>>

GenUsrRequest ==
    /\ \E p \in PacketInputs, tport \in Transport :
          gen_usr_request(RequestIndex, p, GenPrior, tport)
    /\ UNCHANGED <<sock, scratch, ret, workers>>

EtcSetRequest ==
    /\ \E key \in DirectKeys, tport \in Transport,
          value_size \in ValueSizeInputs, sample \in KeySampleInputs :
          etc_set_request(key, AsU32(RequestIndex), GenPrior, tport, value_size, sample)
    /\ UNCHANGED <<sock, scratch, ret, workers>>

GenEtcRequest ==
    /\ \E p \in PacketInputs, tport \in Transport,
          value_size \in ValueSizeInputs, sample \in KeySampleInputs :
          gen_etc_request(RequestIndex, p, GenPrior, tport, value_size, sample)
    /\ UNCHANGED <<sock, scratch, ret, workers>>

NextGen == UsrSetRequest \/ GenUsrRequest \/ EtcSetRequest \/ GenEtcRequest

SpecGen == InitGen /\ [][NextGen]_vars

\* a single worker that only calls gen_etc_request
NextEtc == GenEtcRequest

SpecEtc == InitGen /\ [][NextEtc]_vars

----------------------------------------------------------------------------
(* Claims about the request builders, read off the bytes in the buffer. *)

Built == call.fn \in {"usr_set_request", "gen_usr_request",
                      "etc_set_request", "gen_etc_request"}
\* where the 24-byte header of the last request starts in buf (0-based)
WireHeaderAt == call.prior + (IF call.tport = Udp THEN 8 ELSE 0)
WireByte(off) == buf[WireHeaderAt + off + 1]
WireOpcode == WireByte(1)
WireKeyLength == WireByte(2) * 256 + WireByte(3)
WireExtrasLength == WireByte(4)
WireTotalBodyLength ==
    ((WireByte(8) * 256 + WireByte(9)) * 256 + WireByte(10)) * 256 + WireByte(11)
KeyBytesAppended == call.keyEnd - call.keyStart
ValueBytesAppended == Len(buf) - call.keyEnd

\* C1: in every Set request, whatever the key and the sampled sizes, the
\* header's total_body_length is extras_length (8) + key_length + the number
\* of payload bytes appended after the key.
C1_SetBodyLength ==
    (Built /\ call.op = "Set") =>
        /\ WireOpcode = Opcode_Set
        /\ WireExtrasLength = 8
        /\ WireTotalBodyLength = WireExtrasLength + WireKeyLength + ValueBytesAppended

C1_Witness ==
    /\ call.fn = "etc_set_request"
    /\ call.tport = Udp
    /\ WireKeyLength = ETC_KEY_MAX
    /\ ValueBytesAppended = MaxTail
    /\ WireTotalBodyLength = 8 + ETC_KEY_MAX + MaxTail

\* C2: a Get that gen_etc_request builds for a key after a Set for that key
\* carries the key size the latest Set for that key recorded, whatever was
\* built for other keys in between.
C2_GetCarriesRecordedSize ==
    (call.fn = "gen_etc_request" /\ call.op = "Get" /\ lastSet[call.key] # 0) =>
        WireKeyLength = lastSet[call.key]

C2_Witness ==
    /\ call.fn = "gen_etc_request"
    /\ call.op = "Get"
    /\ call.key = 5
    /\ lastSet[5] = ETC_KEY_MAX
    /\ lastSet[99999] = 21
    /\ WireKeyLength = ETC_KEY_MAX

\* C6: every builder hands write_key a target size of at least the number of
\* decimal digits of the key.
C6_TargetCoversDigits ==
    Built => call.target_size >= DigitCount(call.key)

\* C9: every request is as long as its header declares: the bytes appended
\* are the datagram prefix (if any), the 24-byte header and total_body_length
\* more, and the key bytes appended are key_length.
C9_FrameMatchesHeader ==
    Built =>
        /\ Len(buf) - call.prior
              = (IF call.tport = Udp THEN 8 ELSE 0) + 24 + WireTotalBodyLength
        /\ KeyBytesAppended = WireKeyLength

----------------------------------------------------------------------------
(* read_response *)

Ok(id) == [kind |-> "Ok", id |-> id]
Err(what, code) == [kind |-> "Err", err |-> what, code |-> code]
Panic == [kind |-> "Panic"]

\* a read of n bytes into scratch[..n]
Fill(old, bytes) == bytes \o SubSeq(old, Len(bytes) + 1, Len(old))

\* the status check both transports end with
StatusResult(hdr) ==
    IF hdr.vbucket_id_or_status # ResponseStatus_NoError
    THEN Err("status", hdr.vbucket_id_or_status)
    ELSE Ok(AsUsize(hdr.opaque))

\* Transport::Udp: one sock.read into scratch[..32], then the header at 8
ReadResponseUdp ==
    /\ sock.tport = Udp
    /\ ret.kind # "Panic"
    /\ sock.data # <<>>
    /\ LET dg == Head(sock.data)
           len == Min(Len(dg), 32)
           filled == Fill(scratch, SubSeq(dg, 1, len))
           r == PacketHeader_read(SubSeq(filled, 9, Len(filled)))
       IN  /\ sock' = [sock EXCEPT !.data = Tail(sock.data)]
           /\ scratch' = filled
           /\ call' = [fn |-> "read_response", tport |-> Udp, pending |-> dg,
                       consumed |-> Len(dg)]
           /\ ret' = IF len = 0 THEN Err("eof", 0)
                     ELSE IF len < 8 THEN Err("short", len)
                     ELSE IF ~r.ok THEN Err("magic", r.magic)
                     ELSE StatusResult(r.hdr)
    /\ UNCHANGED <<buf, ETC_KEY_PRELOAD, lastSet, workers>>

\* Transport::Tcp: read_exact of the header, then read_exact of the body
\* into scratch[..total_body_length].  A read_exact that lacks bytes blocks
\* while the peer keeps the connection open (the call does not return) and
\* fails with UnexpectedEof, the pending bytes consumed, once it is closed.
ReadResponseTcp ==
    /\ sock.tport = Tcp
    /\ ret.kind # "Panic"
    /\ LET data == sock.data
           have == Len(data)
           filled == Fill(scratch, SubSeq(data, 1, 24))
           r == PacketHeader_read(filled)
           n == AsUsize(r.hdr.total_body_length)
           Done(result, used, scr) ==
               /\ ret' = result
               /\ sock' = [sock EXCEPT !.data = SubSeq(data, used + 1, have)]
               /\ scratch' = scr
               /\ call' = [fn |-> "read_response", tport |-> Tcp, pending |-> data,
                           consumed |-> used]
       IN  IF have < 24
           THEN sock.closed /\ Done(Err("io", 0), have, Fill(scratch, data))
           ELSE IF ~r.ok
           THEN Done(Err("magic", r.magic), 24, filled)
           ELSE IF n > Len(scratch)
           THEN Done(Panic, 24, filled)
           ELSE IF have < 24 + n
           THEN sock.closed
                /\ Done(Err("io", n), have, Fill(filled, SubSeq(data, 25, have)))
           ELSE Done(StatusResult(r.hdr), 24 + n,
                     Fill(filled, SubSeq(data, 25, 24 + n)))
    /\ UNCHANGED <<buf, ETC_KEY_PRELOAD, lastSet, workers>>

----------------------------------------------------------------------------
(* The reader on a connection on which the server's responses arrive. *)

Response(magic, status, opaque, body_len) ==
    PacketHeader_write([PacketHeader_default EXCEPT
        !.magic = magic,
        !.vbucket_id_or_status = status,
        !.total_body_length = AsU32(body_len),
        !.opaque = AsU32(opaque)])
    \o Repeat(170, body_len)

StreamResponses ==
    {Response(m, st, op, n) : m \in {Magic_Response, Magic_Request}, st \in {0, 1},
                              op \in {7, 9}, n \in {0, 3, ScratchLen + 1}}
Datagrams ==
    {SubSeq(UDP_HEADER \o Response(m, st, op, n), 1, cut) :
        m \in {Magic_Response, Magic_Request}, st \in {0, 1}, op \in {7, 9},
        n \in {0}, cut \in {0, 5, 8, 9, 31, 32}}
    \cup {UDP_HEADER \o Response(Magic_Response, st, 9, 3) : st \in {0, 1}}

RECURSIVE Flatten(_)
Flatten(ss) == IF ss = <<>> THEN <<>> ELSE Head(ss) \o Flatten(Tail(ss))

SeqsUpTo(S, n) == UNION {[1..m -> S] : m \in 1..n}

InitRead ==
    /\ buf = <<>>
    /\ call = NoCall
    /\ ETC_KEY_PRELOAD = <<>>
    /\ lastSet = <<>>
    /\ workers = <<>>
    /\ ret = NoRet
    /\ scratch = Repeat(0, ScratchLen)
    /\ \/ \E rs \in SeqsUpTo(StreamResponses, MaxResponses), closed \in BOOLEAN :
             sock = [tport |-> Tcp, closed |-> closed, data |-> Flatten(rs)]
       \/ \E ds \in SeqsUpTo(Datagrams, MaxResponses) :
             sock = [tport |-> Udp, closed |-> FALSE, data |-> ds]

NextRead == ReadResponseTcp \/ ReadResponseUdp

SpecRead == InitRead /\ [][NextRead]_vars

----------------------------------------------------------------------------
(* Claims about the reader, read off the bytes that were pending. *)

Reads == call.fn = "read_response"
\* the header of the pending response starts at 0 (stream) or 8 (datagram)
PendingAt == IF call.tport = Udp THEN 8 ELSE 0
PendingByte(off) == call.pending[PendingAt + off + 1]
PendingMagic == PendingByte(0)
PendingStatus == PendingByte(6) * 256 + PendingByte(7)
PendingBodyLength ==
    ((PendingByte(8) * 256 + PendingByte(9)) * 256 + PendingByte(10)) * 256
    + PendingByte(11)
PendingOpaque ==
    ((PendingByte(12) * 256 + PendingByte(13)) * 256 + PendingByte(14)) * 256
    + PendingByte(15)
\* a whole response with the response magic was there to be read
FullyReceived ==
    /\ Reads
    /\ Len(call.pending) >= PendingAt + 24
    /\ PendingMagic = Magic_Response
    /\ call.tport = Tcp => Len(call.pending) >= 24 + PendingBodyLength

\* C3: on the stream transport every call on a response with the response
\* magic consumes 24 + total_body_length bytes, whatever its status and its
\* total_body_length.
C3_StreamConsumesFrame ==
    (FullyReceived /\ call.tport = Tcp) => call.consumed = 24 + PendingBodyLength

\* C4: for a fully received response with the response magic, read_response
\* returns the opaque exactly when the status is NoError and an error
\* carrying the status otherwise.
C4_StatusDecidesResult ==
    FullyReceived =>
        IF PendingStatus = ResponseStatus_NoError
        THEN ret = Ok(PendingOpaque)
        ELSE ret = Err("status", PendingStatus)

\* C5: a datagram shorter than the 8-byte prefix plus the 24-byte header
\* fails with a framing error (with EOF when it is empty); nothing is
\* returned from scratch bytes that the packet did not bring.
C5_ShortDatagramFails ==
    (Reads /\ call.tport = Udp /\ Len(call.pending) < 8 + 24) =>
        IF Len(call.pending) = 0
        THEN ret = Err("eof", 0)
        ELSE ret.kind = "Err" /\ ret.err \in {"short", "magic"}

----------------------------------------------------------------------------
(* Two workers that build ETC requests at once.  ETC_KEY_PRELOAD is a      *)
(* static mut without synchronization: the store of etc_set_request and    *)
(* its read-back are two accesses, and another worker's store may fall     *)
(* between them.  The accesses race, so the build may also keep the stored *)
(* value in a register and never read the slot back: the read-back yields  *)
(* either the slot's content or the worker's own sample.                   *)

Workers == {1, 2}
RaceKeys == {5, 99999}
RaceValueSizes == {0, 1}
Idle == [pc |-> "idle", op |-> "none"]

InitRace ==
    /\ buf = <<>>
    /\ call = NoCall
    /\ ETC_KEY_PRELOAD = [s \in {Slot(k) : k \in RaceKeys} |-> 0]
    /\ lastSet = <<>>
    /\ sock = NoSock
    /\ scratch = <<>>
    /\ ret = NoRet
    /\ workers = [w \in Workers |-> Idle]

\* etc_set_request up to the store into the slot
EtcSetStore(w) ==
    /\ workers[w].pc = "idle"
    /\ \E key \in RaceKeys, value_size \in RaceValueSizes, sample \in KeySampleInputs :
          /\ ETC_KEY_PRELOAD' = [ETC_KEY_PRELOAD EXCEPT ![Slot(key)] = ClampKeySize(sample)]
          /\ workers' = [workers EXCEPT ![w] =
                            [pc |-> "stored", op |-> "none", key |-> key,
                             value_size |-> value_size,
                             sampled |-> ClampKeySize(sample)]]
    /\ UNCHANGED <<buf, call, lastSet, sock, scratch, ret>>

\* etc_set_request from the read-back of the slot to the end
EtcSetEmit(w) ==
    /\ workers[w].pc = "stored"
    /\ \E key_size \in {ETC_KEY_PRELOAD[Slot(workers[w].key)], workers[w].sampled} :
          workers' = [workers EXCEPT ![w] =
              [pc |-> "idle", op |-> "Set", key |-> workers[w].key,
               sampled |-> workers[w].sampled,
               frame |-> SetFrame(workers[w].key, AsU32(RequestIndex), <<>>, Tcp,
                                  key_size, workers[w].value_size)]]
    /\ UNCHANGED <<buf, call, ETC_KEY_PRELOAD, lastSet, sock, scratch, ret>>

\* the Get branch of gen_etc_request: one read of the slot
EtcGet(w) ==
    /\ workers[w].pc = "idle"
    /\ \E key \in RaceKeys :
          workers' = [workers EXCEPT ![w] =
              [pc |-> "idle", op |-> "Get", key |-> key, sampled |-> 0,
               frame |-> GetFrame(key, AsU32(RequestIndex), <<>>, Tcp,
                                  AsU16(ETC_KEY_PRELOAD[Slot(key)]))]]
    /\ UNCHANGED <<buf, call, ETC_KEY_PRELOAD, lastSet, sock, scratch, ret>>

NextRace == \E w \in Workers : EtcSetStore(w) \/ EtcSetEmit(w) \/ EtcGet(w)

SpecRace == InitRace /\ [][NextRace]_vars

\* C10: with the store and the read-back of the slot interleaving between
\* two workers, every Set carries in its header, and emits as key bytes,
\* the key size that this same request sampled and stored.
C10_SetCarriesOwnSample ==
    \A w \in Workers :
        workers[w].op = "Set" =>
            LET f == workers[w].frame IN
            /\ f.bytes[3] * 256 + f.bytes[4] = workers[w].sampled
            /\ f.keyEnd - f.keyStart = workers[w].sampled

=============================================================================
